---- MODULE Spec2Model ----
(***************************************************************************)
(* Verification model of the retrieval application:                        *)
(*   - the Neo4j datastore providers (retrieval_service/datastore/         *)
(*     providers/neo4j_graph.py and neo4jdb.py): capability dispatch, the  *)
(*     bulk loader initialize_data and the graph amenities_search;         *)
(*   - the chat front end (llm_demo/app.py): the process-wide agent map    *)
(*     and the index / login / chat / reset handlers.                      *)
(* llm_demo/app.py holds an unresolved merge; the model follows the side   *)
(* whose definitions (get_agent, the ais map) are present in the source.   *)
(***************************************************************************)
EXTENDS Integers, Sequences, FiniteSets, Bags, TLC

None == "None"

Min(a, b) == IF a < b THEN a ELSE b

\* All sequences over S of length at most n.
SeqUpTo(S, n) == UNION {[1..k -> S] : k \in 0..n}

(***************************************************************************)
(* Bounds of the model.                                                    *)
(***************************************************************************)
MaxAmenities == 3      \* longest amenities input list
MaxRows == 2           \* longest relationship manifest
MaxRuns == 2           \* initialize_data runs in one behaviour
MaxTopK == 3           \* largest top_k passed to amenities_search
MaxReq == 3            \* HTTP requests in one behaviour
MaxConc == 2           \* requests in progress at one time

(***************************************************************************)
(* Text: a name is a sequence of characters, and Cypher's toLower maps it  *)
(* character by character.                                                 *)
(***************************************************************************)
LowerChar(c) ==
    CASE c = "C" -> "c"
      [] c = "A" -> "a"
      [] c = "F" -> "f"
      [] c = "E" -> "e"
      [] c = "L" -> "l"
      [] c = "O" -> "o"
      [] c = "G" -> "g"
      [] c = "T" -> "t"
      [] c = "U" -> "u"
      [] c = "N" -> "n"
      [] OTHER -> c

toLower(s) == [i \in DOMAIN s |-> LowerChar(s[i])]

Cafe == <<"C", "a", "f", "e">>
cafe == <<"c", "a", "f", "e">>
CAFE == <<"C", "A", "F", "E">>
Lounge == <<"L", "o", "u", "n", "g", "e">>
LOUNGE == <<"L", "O", "U", "N", "G", "E">>
Gate == <<"G", "a", "t", "e">>
gate == <<"g", "a", "t", "e">>
Tea == <<"T", "e", "a">>

(***************************************************************************)
(* Embeddings.  A vector is kept as its declared length and its direction  *)
(* in a plane; the directions of the pool are unit vectors, so the cosine  *)
(* of two of them is their dot product.  Similarities are in tenths.       *)
(***************************************************************************)
VectorDimensions == 768

Emb(d) == [dim |-> VectorDimensions, dir |-> d]

\* A vector one component short of the index's dimension.
ShortEmb(d) == [dim |-> VectorDimensions - 1, dir |-> d]

EmbPool == {Emb(<<1, 0>>), Emb(<<0, 1>>), Emb(<<-1, 0>>), ShortEmb(<<1, 0>>)}

Dot(a, b) == a[1] * b[1] + a[2] * b[2]

\* Cosine similarity of two embeddings of the pool, times 10.
Cosine10(e, q) == 10 * Dot(e.dir, q.dir)

\* The threshold the route passes (0.5), and the others tried, in tenths.
RouteThreshold10 == 5
ThresholdPool == {RouteThreshold10, 10}

(***************************************************************************)
(* Inputs of the bulk loader.                                              *)
(***************************************************************************)
Amenity(id, name, category, emb) ==
    [id |-> id, name |-> name, category |-> category, embedding |-> emb]

\* The amenities dataset: rows with distinct ids, in id order.  Two of them
\* have the same name up to letter case, and the last one has an embedding
\* that is not of the index's dimension.
AmenityDataset ==
    << Amenity(1, Cafe, "food", Emb(<<1, 0>>)),
       Amenity(2, Lounge, "rest", Emb(<<0, 1>>)),
       Amenity(3, Gate, "rest", Emb(<<-1, 0>>)),
       Amenity(4, CAFE, "food", Emb(<<0, 1>>)),
       Amenity(5, Tea, "food", ShortEmb(<<1, 0>>)) >>

RECURSIVE InOrder(_)
\* The dataset rows at the positions S, in dataset order.
InOrder(S) ==
    IF S = {} THEN <<>>
    ELSE LET m == CHOOSE x \in S : \A y \in S : x <= y
         IN <<AmenityDataset[m]>> \o InOrder(S \ {m})

\* The amenities lists tried: the selections of at most MaxAmenities rows.
AmenityInputs ==
    {InOrder(S) : S \in {T \in SUBSET DOMAIN AmenityDataset : Cardinality(T) <= MaxAmenities}}

Row(s, r, t) == [src_id |-> s, rel_type |-> r, tgt_id |-> t]

ManifestPool ==
    { Row(cafe, "Similar_to", LOUNGE),
      Row(CAFE, "Similar_to", Lounge),
      Row(gate, "Similar_to", Cafe),
      Row(Lounge, "NEAR", Gate) }

(***************************************************************************)
(* The graph database.  Nodes are kept in creation order and an edge       *)
(* names its end nodes by their positions; edges form a bag, since CREATE  *)
(* may add a parallel edge where MERGE does not.                           *)
(***************************************************************************)
EmptyGraph == [nodes |-> <<>>, edges |-> EmptyBag, index |-> FALSE]

AmenityNode(id, name, category, emb) ==
    [label |-> "Amenity", id |-> id, name |-> name, category |-> category,
     embedding |-> emb]

\* A property a node does not have reads as null.
NoId == 0
NoEmbedding == [dim |-> 0, dir |-> <<0, 0>>]

CategoryNode(name) ==
    [label |-> "Category", id |-> NoId, name |-> name, category |-> None,
     embedding |-> NoEmbedding]

Edge(s, r, t) == [src |-> s, type |-> r, tgt |-> t]

AmenityIdx(gr) == {i \in DOMAIN gr.nodes : gr.nodes[i].label = "Amenity"}

CategoryIdx(gr) == {i \in DOMAIN gr.nodes : gr.nodes[i].label = "Category"}

NodeCount(gr) == Len(gr.nodes)

EdgeCount(gr) == BagCardinality(gr.edges)

\* MATCH (n) DETACH DELETE n
DetachDeleteAll(gr) == [gr EXCEPT !.nodes = <<>>, !.edges = EmptyBag]

\* DROP INDEX amenity_embedding IF EXISTS
DropVectorIndex(gr) == [gr EXCEPT !.index = FALSE]

\* CREATE VECTOR INDEX amenity_embedding IF NOT EXISTS
CreateVectorIndexStmt(gr) == [gr EXCEPT !.index = TRUE]

\* CREATE (a:Amenity {id: .., name: .., category: .., embedding: ..})
CreateAmenityStmt(gr, a) ==
    [gr EXCEPT !.nodes =
        Append(@, AmenityNode(a.id, a.name, a.category, a.embedding))]

\* MERGE (c:Category {name: $category})
MergeCategoryStmt(gr, c) ==
    IF \E i \in CategoryIdx(gr) : gr.nodes[i].name = c
    THEN gr
    ELSE [gr EXCEPT !.nodes = Append(@, CategoryNode(c))]

\* The statement written with CREATE: one more edge per matched pair, whether
\* or not one exists.
CreateEdges(gr, pairs, r) ==
    [gr EXCEPT !.edges = @ (+) SetToBag({Edge(p[1], r, p[2]) : p \in pairs})]

\* MERGE (a)-[:r]->(b) for every matched pair: an edge is added only where
\* none of that type joins the pair in that direction.
MergeEdges(gr, pairs, r) ==
    LET new == {Edge(p[1], r, p[2]) : p \in pairs}
        missing == {e \in new : CopiesIn(e, gr.edges) = 0}
    IN [gr EXCEPT !.edges = @ (+) SetToBag(missing)]

\* MATCH (a:Amenity {id: $id}), (c:Category {name: $category})
\* MERGE (a)-[:BELONGS_TO]->(c)
BelongsToPairs(gr, a) ==
    {p \in AmenityIdx(gr) \X CategoryIdx(gr) :
        /\ gr.nodes[p[1]].id = a.id
        /\ gr.nodes[p[2]].name = a.category}

MergeBelongsToStmt(gr, a) == MergeEdges(gr, BelongsToPairs(gr, a), "BELONGS_TO")

\* MATCH (a:Amenity) WHERE toLower(a.name) = toLower("{src_name}")
\* MATCH (b:Amenity) WHERE toLower(b.name) = toLower("{tgt_name}")
NameMatches(gr, i, name) == toLower(gr.nodes[i].name) = toLower(name)

ManifestPairs(gr, row) ==
    {p \in AmenityIdx(gr) \X AmenityIdx(gr) :
        /\ NameMatches(gr, p[1], row.src_id)
        /\ NameMatches(gr, p[2], row.tgt_id)}

\* ... MERGE (a)-[:{rel_type}]->(b)
MergeManifestRowStmt(gr, row) ==
    MergeEdges(gr, ManifestPairs(gr, row), row.rel_type)

\* neo4jdb: CREATE (a:Amenity {name: .., description: .., category: ..})
CreateSimpleAmenityStmt(gr, a) ==
    [gr EXCEPT !.nodes = Append(@, AmenityNode(NoId, a.name, a.category, NoEmbedding))]

(***************************************************************************)
(* State.                                                                  *)
(***************************************************************************)
VARIABLES
    provider,    \* the provider the datastore client was created for
    amenities,   \* the amenities list given to initialize_data
    manifest,    \* the rows of amenity_relationships.csv
    g,           \* the committed graph
    tx,          \* the graph as the open transaction sees it (g when none)
    pc,          \* the statement initialize_data runs next ("idle": not running)
    phase,       \* position in the run's transaction list (0 when idle)
    idx,         \* loop index of the running transaction function
    runs,        \* initialize_data runs completed
    counts,      \* node and edge counts observed after each completed run
    lastCall,    \* the last capability invoked on the client and how it ended
    search,      \* the last amenities_search: its arguments and what it returned
    exported     \* what the last export_data gave its caller

storeVars ==
    <<provider, amenities, manifest, g, tx, pc, phase, idx, runs, counts,
      lastCall, search, exported>>

\* The chat front end's state (llm_demo/app.py).
VARIABLES
    ais,          \* the agent map: session uuid -> context (0: no entry)
    ctxs,         \* the contexts created so far, in creation order
    baseHistory,  \* the module-level BASE_HISTORY list
    cookie,       \* the session cookie the client holds
    req,          \* the requests in progress, by slot
    nreq,         \* requests sent so far
    nuuid         \* uuids generated so far

sessVars == <<ais, ctxs, baseHistory, cookie, req, nreq, nuuid>>

\* The lifespan of the chat front end's application.
VARIABLES
    life          \* "running", or how far the shutdown step has come

\* The retrieval service's routes (retrieval_service/app/routes.py).
VARIABLES
    rt,           \* the route request in progress or last answered
    rlog,         \* the calls the routes made to the services behind them
    nrt           \* route requests sent so far

routeVars == <<rt, rlog, nrt>>

\* ToolTrace objects (llm_demo/orchestrator/helpers/tool_trace.py).
VARIABLES
    curr_log,     \* instance -> its curr_log list
    lastOp        \* the last ToolTrace method call and what it returned

traceVars == <<curr_log, lastOp>>

nonStoreVars == <<sessVars, life, routeVars, traceVars>>

nonSessVars == <<storeVars, life, routeVars, traceVars>>

Providers == {"neo4j_graph", "neo4jdb"}

NoCall == [cap |-> None, outcome |-> None, touched |-> FALSE]

NoSearch ==
    [called |-> FALSE, q |-> NoEmbedding, thr |-> 0, k |-> 0, selected |-> {},
     rows |-> {}]

(***************************************************************************)
(* Capability dispatch.                                                    *)
(***************************************************************************)
\* Methods of neo4j_graph.Client whose whole body is a raise.
GraphRaises ==
    { "export_data", "get_airport_by_id", "get_airport_by_iata",
      "search_airports", "get_flight", "search_flights_by_number",
      "search_flights_by_airports", "validate_ticket", "insert_ticket",
      "list_tickets", "policies_search" }

\* Methods of neo4jdb.Client whose whole body is a raise.
DbRaises ==
    { "get_airport_by_id", "get_airport_by_iata", "search_airports",
      "get_amenity", "amenities_search", "get_flight",
      "search_flights_by_number", "search_flights_by_airports",
      "validate_ticket", "insert_ticket", "list_tickets", "policies_search" }

Raises(p) == IF p = "neo4j_graph" THEN GraphRaises ELSE DbRaises

\* A stub that returned an empty value in place of raising.
StubBody_ReturnsEmpty(p, cap) ==
    IF cap = "list_tickets"
    THEN [cap |-> cap, outcome |-> "empty", touched |-> FALSE]
    ELSE [cap |-> cap, outcome |-> "NotImplementedError", touched |-> FALSE]

\* raise NotImplementedError("This client does not support ...")
StubBody(p, cap) ==
    [cap |-> cap, outcome |-> "NotImplementedError", touched |-> FALSE]

\* The calls below read the graph and leave nothing behind, so one of them is
\* observed between two runs of initialize_data.
CallObserved == lastCall.cap \notin {None, "initialize_data"}

\* A call of a method the provider does not implement.
InvokeStub(cap) ==
    /\ pc = "idle"
    /\ ~CallObserved
    /\ cap \in Raises(provider)
    /\ lastCall' = StubBody(provider, cap)
    /\ search' = NoSearch
    /\ UNCHANGED <<provider, amenities, manifest, g, tx, pc, phase, idx, runs,
                   counts>>
    /\ UNCHANGED <<exported, nonStoreVars>>

(***************************************************************************)
(* initialize_data.  Each session.execute_write is a transaction: its      *)
(* statements act on tx and its commit publishes tx as g.                  *)
(***************************************************************************)
\* A run whose session block built the index before the nodes.
Transactions_IndexFirst(p) ==
    IF p = "neo4j_graph"
    THEN << "delete_graph", "delete_vector_index", "create_vector_index",
            "create_amenity_nodes", "create_amenity_relationships" >>
    ELSE << "create_amenities" >>

\* The transaction functions of a run, in the order the session block awaits
\* them.
Transactions(p) ==
    IF p = "neo4j_graph"
    THEN << "delete_graph", "delete_vector_index", "create_amenity_nodes",
            "create_amenity_relationships", "create_vector_index" >>
    ELSE << "create_amenities" >>

\* The first statement of a transaction function (an empty loop runs none).
Entry(name) ==
    CASE name = "create_amenity_nodes" ->
            IF amenities = <<>> THEN "commit" ELSE "create_node"
      [] name = "create_amenity_relationships" ->
            IF amenities # <<>> THEN "belongs_to"
            ELSE IF manifest # <<>> THEN "csv_row" ELSE "commit"
      [] name = "create_amenities" ->
            IF amenities = <<>> THEN "commit" ELSE "create_amenities"
      [] OTHER -> name

StartInitializeData ==
    /\ pc = "idle"
    /\ runs < MaxRuns
    /\ phase' = 1
    /\ tx' = g
    /\ idx' = 1
    /\ pc' = Entry(Transactions(provider)[1])
    /\ search' = NoSearch
    /\ lastCall' = [cap |-> "initialize_data", outcome |-> None, touched |-> TRUE]
    /\ UNCHANGED <<provider, amenities, manifest, g, runs, counts>>
    /\ UNCHANGED <<exported, nonStoreVars>>

DeleteGraph ==
    /\ pc = "delete_graph"
    /\ tx' = DetachDeleteAll(tx)
    /\ pc' = "commit"
    /\ UNCHANGED <<provider, amenities, manifest, g, phase, idx, runs, counts,
                   lastCall, search>>
    /\ UNCHANGED <<exported, nonStoreVars>>

DeleteVectorIndex ==
    /\ pc = "delete_vector_index"
    /\ tx' = DropVectorIndex(tx)
    /\ pc' = "commit"
    /\ UNCHANGED <<provider, amenities, manifest, g, phase, idx, runs, counts,
                   lastCall, search>>
    /\ UNCHANGED <<exported, nonStoreVars>>

\* A node statement whose effect is committed as it runs.
CreateAmenityNode_AutoCommit ==
    /\ pc = "create_node"
    /\ tx' = CreateAmenityStmt(tx, amenities[idx])
    /\ g' = tx'
    /\ pc' = "merge_category"
    /\ UNCHANGED <<provider, amenities, manifest, phase, idx, runs, counts,
                   lastCall, search>>
    /\ UNCHANGED <<exported, nonStoreVars>>

CreateAmenityNode ==
    /\ pc = "create_node"
    /\ tx' = CreateAmenityStmt(tx, amenities[idx])
    /\ pc' = "merge_category"
    /\ UNCHANGED <<provider, amenities, manifest, g, phase, idx, runs, counts,
                   lastCall, search>>
    /\ UNCHANGED <<exported, nonStoreVars>>

MergeCategory ==
    /\ pc = "merge_category"
    /\ tx' = MergeCategoryStmt(tx, amenities[idx].category)
    /\ IF idx < Len(amenities)
       THEN pc' = "create_node" /\ idx' = idx + 1
       ELSE pc' = "commit" /\ idx' = 1
    /\ UNCHANGED <<provider, amenities, manifest, g, phase, runs, counts,
                   lastCall, search>>
    /\ UNCHANGED <<exported, nonStoreVars>>

MergeBelongsTo ==
    /\ pc = "belongs_to"
    /\ tx' = MergeBelongsToStmt(tx, amenities[idx])
    /\ IF idx < Len(amenities)
       THEN pc' = "belongs_to" /\ idx' = idx + 1
       ELSE /\ idx' = 1
            /\ pc' = IF manifest # <<>> THEN "csv_row" ELSE "commit"
    /\ UNCHANGED <<provider, amenities, manifest, g, phase, runs, counts,
                   lastCall, search>>
    /\ UNCHANGED <<exported, nonStoreVars>>

MergeManifestRow ==
    /\ pc = "csv_row"
    /\ tx' = MergeManifestRowStmt(tx, manifest[idx])
    /\ IF idx < Len(manifest)
       THEN pc' = "csv_row" /\ idx' = idx + 1
       ELSE pc' = "commit" /\ idx' = 1
    /\ UNCHANGED <<provider, amenities, manifest, g, phase, runs, counts,
                   lastCall, search>>
    /\ UNCHANGED <<exported, nonStoreVars>>

CreateVectorIndex ==
    /\ pc = "create_vector_index"
    /\ tx' = CreateVectorIndexStmt(tx)
    /\ pc' = "commit"
    /\ UNCHANGED <<provider, amenities, manifest, g, phase, idx, runs, counts,
                   lastCall, search>>
    /\ UNCHANGED <<exported, nonStoreVars>>

\* neo4jdb's only transaction function.
CreateAmenities ==
    /\ pc = "create_amenities"
    /\ tx' = CreateSimpleAmenityStmt(tx, amenities[idx])
    /\ IF idx < Len(amenities)
       THEN pc' = "create_amenities" /\ idx' = idx + 1
       ELSE pc' = "commit" /\ idx' = 1
    /\ UNCHANGED <<provider, amenities, manifest, g, phase, runs, counts,
                   lastCall, search>>
    /\ UNCHANGED <<exported, nonStoreVars>>

\* The run is cancelled or a statement fails: the exception leaves the
\* `async with` of the session, the open transaction is rolled back and what
\* earlier transactions committed stays.  idx stays where the loop stopped.
CancelOrFail ==
    /\ pc # "idle"
    /\ tx' = g
    /\ pc' = "idle"
    /\ phase' = 0
    /\ lastCall' = [cap |-> "initialize_data", outcome |-> "CancelledError",
                    touched |-> TRUE]
    /\ UNCHANGED <<provider, amenities, manifest, g, idx, runs, counts, search>>
    /\ UNCHANGED <<exported, nonStoreVars>>

\* execute_write returns: the transaction commits, and the session block goes
\* on to the next transaction function or the run ends.
Commit ==
    /\ pc = "commit"
    /\ g' = tx
    /\ IF phase < Len(Transactions(provider))
       THEN /\ phase' = phase + 1
            /\ pc' = Entry(Transactions(provider)[phase + 1])
            /\ UNCHANGED <<runs, counts>>
       ELSE /\ phase' = 0
            /\ pc' = "idle"
            /\ runs' = runs + 1
            /\ counts' = Append(counts, <<NodeCount(tx), EdgeCount(tx)>>)
    /\ UNCHANGED <<provider, amenities, manifest, tx, idx, lastCall, search>>
    /\ UNCHANGED <<exported, nonStoreVars>>

(***************************************************************************)
(* get_amenity and amenities_search of the graph provider.                 *)
(***************************************************************************)
\* MATCH (amenity: Amenity {id: $id}) RETURN ...; result.single()
GetAmenity(id) ==
    /\ pc = "idle"
    /\ ~CallObserved
    /\ provider = "neo4j_graph"
    /\ lastCall' =
          [cap |-> "get_amenity",
           outcome |-> IF \E i \in AmenityIdx(g) : g.nodes[i].id = id
                       THEN "record" ELSE None,
           touched |-> TRUE]
    /\ search' = NoSearch
    /\ UNCHANGED <<provider, amenities, manifest, g, tx, pc, phase, idx, runs,
                   counts>>
    /\ UNCHANGED <<exported, nonStoreVars>>

\* The nodes the vector index holds: Amenity nodes whose embedding has the
\* index's dimension.
Indexed(gr) ==
    {i \in AmenityIdx(gr) : gr.nodes[i].embedding.dim = VectorDimensions}

Score(gr, i, q) == Cosine10(gr.nodes[i].embedding, q)

\* db.index.vector.queryNodes(index, k, q): the k nearest indexed nodes; which
\* of several equally near nodes it keeps is not specified.
QueryNodes(gr, k, q) ==
    {S \in SUBSET Indexed(gr) :
        /\ Cardinality(S) = Min(k, Cardinality(Indexed(gr)))
        /\ \A i \in S : \A j \in Indexed(gr) \ S : Score(gr, i, q) >= Score(gr, j, q)}

\* (sourceAmenity)-[r:Similar_to]-(targetAmenity), in either direction.
SimilarEdges(gr, i) ==
    {e \in BagToSet(gr.edges) : e.type = "Similar_to" /\ (e.src = i \/ e.tgt = i)}

OtherEnd(e, i) == IF e.src = i THEN e.tgt ELSE e.src

NoTarget == 0

NoEdge == Edge(0, None, 0)

\* A returned row: the source node, the relationship r (type(r) is its type;
\* copy tells parallel relationships apart) and the target node.
ResultRow(i, e, c, t) == [source |-> i, rel |-> e, copy |-> c, target |-> t]

\* OPTIONAL MATCH: one row per related amenity, and one row of nulls for a
\* source amenity that has none.
OptionalMatch(gr, i) ==
    IF SimilarEdges(gr, i) = {}
    THEN {ResultRow(i, NoEdge, 0, NoTarget)}
    ELSE UNION {{ResultRow(i, e, c, OtherEnd(e, i)) : c \in 1..CopiesIn(e, gr.edges)}
                   : e \in SimilarEdges(gr, i)}

JoinRows(gr, S) == UNION {OptionalMatch(gr, i) : i \in S}

\* LIMIT n with no ORDER BY keeps n of the rows.
Limit(rows, n) ==
    {R \in SUBSET rows : Cardinality(R) = Min(n, Cardinality(rows))}

ResultLimit == 2

AmenitiesSearch(q, thr, k) ==
    /\ pc = "idle"
    /\ ~CallObserved
    /\ provider = "neo4j_graph"
    /\ g.index
    /\ q.dim = VectorDimensions
    /\ \E S \in QueryNodes(g, k, q) :
          \E R \in Limit(JoinRows(g, S), ResultLimit) :
             search' = [called |-> TRUE, q |-> q, thr |-> thr, k |-> k,
                        selected |-> S, rows |-> R]
    /\ lastCall' = [cap |-> "amenities_search", outcome |-> "rows", touched |-> TRUE]
    /\ UNCHANGED <<provider, amenities, manifest, g, tx, pc, phase, idx, runs,
                   counts>>
    /\ UNCHANGED <<exported, nonStoreVars>>

\* The procedure fails when the index it names does not exist.
AmenitiesSearchNoIndex(q, thr, k) ==
    /\ pc = "idle"
    /\ ~CallObserved
    /\ provider = "neo4j_graph"
    /\ ~g.index
    /\ search' = NoSearch
    /\ lastCall' = [cap |-> "amenities_search", outcome |-> "ClientError", touched |-> TRUE]
    /\ UNCHANGED <<provider, amenities, manifest, g, tx, pc, phase, idx, runs,
                   counts>>
    /\ UNCHANGED <<exported, nonStoreVars>>

\* The query is run with the embedding as it came; the procedure fails on a
\* vector that is not of the index's dimension.
AmenitiesSearchWrongDimension(q, thr, k) ==
    /\ pc = "idle"
    /\ ~CallObserved
    /\ provider = "neo4j_graph"
    /\ g.index
    /\ q.dim # VectorDimensions
    /\ search' = [NoSearch EXCEPT !.q = q, !.thr = thr, !.k = k]
    /\ lastCall' = [cap |-> "amenities_search", outcome |-> "ClientError", touched |-> TRUE]
    /\ UNCHANGED <<provider, amenities, manifest, g, tx, pc, phase, idx, runs,
                   counts>>
    /\ UNCHANGED <<exported, nonStoreVars>>

(***************************************************************************)
(* export_data of neo4jdb.                                                 *)
(***************************************************************************)
NoExport == [called |-> FALSE, raised |-> FALSE, collections |-> <<>>]

\* models.Amenity(id=record["a"].id, name=.., description=.., category=..,
\* embedding=record["a"]["embedding"]): the id is the node's own id, and the
\* node has no embedding property.
ExportedAmenity(gr, i) ==
    [id |-> i, name |-> gr.nodes[i].name, category |-> gr.nodes[i].category,
     embedding |-> gr.nodes[i].embedding]

\* get_amenities: MATCH (a:Amenity) RETURN a, one models.Amenity per record.
GetAmenities(gr) ==
    LET at == SelectSeq([i \in 1..Len(gr.nodes) |-> i],
                        LAMBDA i : gr.nodes[i].label = "Amenity")
    IN [j \in 1..Len(at) |-> ExportedAmenity(gr, at[j])]

\* export_data returns the list asyncio.gather gives for its one read: a list
\* of one collection.  Whether the driver lets the function iterate the
\* result and read a property the loader never wrote, or raises, is the
\* driver's: both are followed.
ExportData ==
    /\ pc = "idle"
    /\ ~CallObserved
    /\ provider = "neo4jdb"
    /\ \E raised \in BOOLEAN :
          /\ exported' = [called |-> TRUE, raised |-> raised,
                          collections |-> IF raised THEN <<>> ELSE <<GetAmenities(g)>>]
          /\ lastCall' = [cap |-> "export_data",
                          outcome |-> IF raised THEN "Error" ELSE "returned",
                          touched |-> TRUE]
    /\ search' = NoSearch
    /\ UNCHANGED <<provider, amenities, manifest, g, tx, pc, phase, idx, runs,
                   counts>>
    /\ UNCHANGED nonStoreVars

(***************************************************************************)
(* The datastore specification.                                            *)
(***************************************************************************)
TopKs == 1..MaxTopK

AmenityIds == {AmenityDataset[i].id : i \in DOMAIN AmenityDataset}

InitStore ==
    /\ provider \in Providers
    /\ amenities \in AmenityInputs
    /\ manifest \in SeqUpTo(ManifestPool, MaxRows)
    /\ g = EmptyGraph
    /\ tx = EmptyGraph
    /\ pc = "idle"
    /\ phase = 0
    /\ idx = 1
    /\ runs = 0
    /\ counts = <<>>
    /\ lastCall = NoCall
    /\ search = NoSearch
    /\ exported = NoExport

NextStore ==
    \/ StartInitializeData
    \/ DeleteGraph
    \/ DeleteVectorIndex
    \/ CreateAmenityNode
    \/ MergeCategory
    \/ MergeBelongsTo
    \/ MergeManifestRow
    \/ CreateVectorIndex
    \/ CreateAmenities
    \/ Commit
    \/ \E cap \in GraphRaises \cup DbRaises : InvokeStub(cap)
    \/ \E id \in AmenityIds : GetAmenity(id)
    \/ \E q \in EmbPool, thr \in ThresholdPool, k \in TopKs : AmenitiesSearch(q, thr, k)
    \/ \E q \in EmbPool, thr \in ThresholdPool, k \in TopKs : AmenitiesSearchNoIndex(q, thr, k)
    \/ \E q \in EmbPool, thr \in ThresholdPool, k \in TopKs :
          AmenitiesSearchWrongDimension(q, thr, k)
    \/ ExportData

(***************************************************************************)
(* The chat front end (llm_demo/app.py).                                   *)
(*                                                                         *)
(* A request carries the session cookie the client held when it sent the   *)
(* request; SessionMiddleware decodes it into the request's own session    *)
(* dict and writes the dict back as the cookie with the response.  A       *)
(* handler runs without interruption from one await to the next.           *)
(***************************************************************************)
Slots == 1..MaxConc

Uuids == 1..MaxReq

NoUuid == 0

NoCtx == 0

Greeting == "greeting"

\* BASE_HISTORY as the module defines it: the one greeting entry.
BASE_HISTORY == <<Greeting>>

\* The session dict of a request that came without a cookie.
EmptySession == [uuid |-> NoUuid, hasHist |-> FALSE, hist |-> <<>>, alias |-> FALSE]

FreeSlot ==
    [kind |-> None, pc |-> "free", sess |-> EmptySession, sent |-> NoUuid,
     prompt |-> "", cred |-> None, ai |-> NoCtx, looked |-> FALSE,
     found |-> FALSE, invoked |-> FALSE, allocated |-> NoCtx,
     outcome |-> None, response |-> None]

\* session["history"]: the session's own list, or BASE_HISTORY itself when the
\* session was given that list object.
Hist(sess) == IF sess.alias THEN baseHistory ELSE sess.hist

Present(id) == id # NoUuid /\ ais[id] # NoCtx

LiveCtxs(id) == {c \in DOMAIN ctxs : ctxs[c].owner = id /\ ctxs[c].state = "live"}

Prompts == {"", "hi"}

Credentials == {None, "valid", "invalid"}

\* The client sends a request with the cookie it holds.
StartRequest(s, kind, prompt, cred) ==
    /\ life = "running"
    /\ nreq < MaxReq
    /\ req[s].pc = "free"
    /\ \A t \in Slots : t < s => req[t].pc # "free"
    /\ nreq' = nreq + 1
    /\ req' = [req EXCEPT ![s] =
                  [FreeSlot EXCEPT !.kind = kind, !.pc = "start", !.sess = cookie,
                                   !.sent = cookie.uuid,
                                   !.prompt = IF kind = "chat" THEN prompt ELSE "",
                                   !.cred = IF kind = "login" THEN cred ELSE None]]
    /\ UNCHANGED <<ais, ctxs, baseHistory, cookie, nuuid>>
    /\ UNCHANGED nonSessVars

\* A handler has ended: the record of the request as the response leaves.
Ended(r, outcome) == [r EXCEPT !.pc = "done", !.outcome = outcome]

\* get_agent's orchestration argument is given (index) or None (login, chat).
OrchestrationArg_Always(kind) == TRUE

OrchestrationArg(kind) == kind = "index"

\* get_agent, lines 170-174: a session without a uuid gets a fresh one, a
\* session without a history is given the BASE_HISTORY list itself.
WithUuid(sess) ==
    IF sess.uuid = NoUuid THEN [sess EXCEPT !.uuid = nuuid + 1] ELSE sess

WithHistory(sess) ==
    IF sess.hasHist THEN sess
    ELSE [sess EXCEPT !.hasHist = TRUE, !.hist = <<>>, !.alias = TRUE]

\* request.session["history"].append(entry) or [0] = entry, on the list the
\* session holds.
SetHist(sess, h) == IF sess.alias THEN sess ELSE [sess EXCEPT !.hist = h]

SetBase(sess, h) == IF sess.alias THEN h ELSE baseHistory

\* HTTP outcomes of the handlers.
Ok == "200"
Redirect == "307 redirect"
NoCredentials == "401 No user credentials found"
NoUserQuery == "400 Error: No user query"
IndexFirst == "400 Error: Invoke index handler before start chatting"
OrchestrationMissing == "500 orchestration not provided."
InvokeError == "500 Error invoking agent"
NoSessionToReset == "400 No session to reset."
AgentNotFound == "500 Current agent not found"
UnhandledKeyError == "500 KeyError"
VerifyError == "500 token verification failed"

\* Exceptions no handler catches: the error response is written outside
\* SessionMiddleware, so the session dict is not written back.
Unhandled == {UnhandledKeyError, VerifyError}

\* What a handler does before it calls get_agent: the outcome it ends with, or
\* None when it goes on.
EarlyExit(r) ==
    CASE r.kind = "login" ->
            IF r.cred = None THEN NoCredentials
            ELSE IF r.cred = "invalid" THEN VerifyError
            ELSE None
      [] r.kind = "chat" ->
            IF r.prompt = "" THEN NoUserQuery
            ELSE IF r.sess.uuid = NoUuid THEN IndexFirst
            ELSE IF ~r.sess.hasHist THEN UnhandledKeyError
            ELSE None
      [] OTHER -> None

\* chat_handler line 144: the user message is appended before get_agent.
BeforeAgent(r) ==
    IF r.kind = "chat"
    THEN [r.sess EXCEPT !.hist = Append(@, "human")]
    ELSE r.sess

\* login_google lines 116-125, on a history h.
Welcomed(h) ==
    IF Len(h) = 1 THEN [h EXCEPT ![1] = "welcome"] ELSE Append(h, "welcome")

\* The handler from the return of get_agent (with agent c) to its next await
\* or its end: the request, the contexts and BASE_HISTORY afterwards.
Continue(r, c, cs, base) ==
    CASE r.kind = "login" ->
            LET h == Welcomed(IF r.sess.alias THEN base ELSE r.sess.hist)
            IN [r |-> Ended([r EXCEPT !.ai = c, !.sess = SetHist(r.sess, h)], Redirect),
                ctxs |-> [cs EXCEPT ![c].header = "Bearer"],
                base |-> IF r.sess.alias THEN h ELSE base]
      [] r.kind = "chat" ->
            [r |-> [r EXCEPT !.ai = c, !.pc = "invoking", !.invoked = TRUE],
             ctxs |-> cs, base |-> base]
      [] OTHER ->
            [r |-> Ended([r EXCEPT !.ai = c], Ok), ctxs |-> cs, base |-> base]

\* index, login_google and chat_handler up to their first suspension; the call
\* of get_agent is part of it (get_agent suspends only in create).
Handle(s) ==
    /\ req[s].pc = "start"
    /\ req[s].kind \in {"index", "login", "chat"}
    /\ LET r == req[s]
           early == EarlyExit(r)
           sess1 == WithHistory(WithUuid(BeforeAgent(r)))
           id == sess1.uuid
           r1 == [r EXCEPT !.sess = sess1, !.looked = TRUE, !.found = Present(id)]
       IN IF early # None
          THEN /\ req' = [req EXCEPT ![s] = Ended(r, early)]
               /\ UNCHANGED <<ais, ctxs, baseHistory, cookie, nreq, nuuid>>
          ELSE /\ nuuid' = IF r.sess.uuid = NoUuid THEN nuuid + 1 ELSE nuuid
               /\ IF Present(id)
                  THEN LET n == Continue(r1, ais[id], ctxs, baseHistory)
                       IN /\ req' = [req EXCEPT ![s] = n.r]
                          /\ ctxs' = n.ctxs
                          /\ baseHistory' = n.base
                  ELSE /\ req' = [req EXCEPT ![s] =
                                    IF OrchestrationArg(r.kind)
                                    THEN [r1 EXCEPT !.pc = "creating"]
                                    ELSE Ended(r1, OrchestrationMissing)]
                       /\ UNCHANGED <<ctxs, baseHistory>>
               /\ UNCHANGED <<ais, cookie, nreq>>
    /\ UNCHANGED nonSessVars

\* get_agent line 178 resumes: create has returned a new context, which is
\* stored under the session's uuid; the handler then goes on.
CreateDone(s) ==
    /\ req[s].pc = "creating"
    /\ LET r == req[s]
           c == Len(ctxs) + 1
           cs == Append(ctxs, [owner |-> r.sess.uuid, state |-> "live", header |-> None])
           n == Continue([r EXCEPT !.allocated = c], c, cs, baseHistory)
       IN /\ ais' = [ais EXCEPT ![r.sess.uuid] = c]
          /\ req' = [req EXCEPT ![s] = n.r]
          /\ ctxs' = n.ctxs
          /\ baseHistory' = n.base
    /\ UNCHANGED <<cookie, nreq, nuuid>>
    /\ UNCHANGED nonSessVars

\* ai.invoke returns: the reply is appended and returned.
ChatInvokeReturn(s) ==
    /\ req[s].pc = "invoking"
    /\ LET r == req[s]
           h == Append(Hist(r.sess), "ai")
       IN /\ req' = [req EXCEPT ![s] =
                        Ended([r EXCEPT !.sess = SetHist(r.sess, h), !.response = "output"], Ok)]
          /\ baseHistory' = SetBase(r.sess, h)
    /\ UNCHANGED <<ais, ctxs, cookie, nreq, nuuid>>
    /\ UNCHANGED nonSessVars

\* ai.invoke raises: the handler answers 500.
ChatInvokeRaise(s) ==
    /\ req[s].pc = "invoking"
    /\ req' = [req EXCEPT ![s] = Ended(req[s], InvokeError)]
    /\ UNCHANGED <<ais, ctxs, baseHistory, cookie, nreq, nuuid>>
    /\ UNCHANGED nonSessVars

\* reset up to the await of client.close().
ResetBegin(s) ==
    /\ req[s].pc = "start"
    /\ req[s].kind = "reset"
    /\ LET r == req[s]
       IN req' = [req EXCEPT ![s] =
                     IF r.sess.uuid = NoUuid THEN Ended(r, NoSessionToReset)
                     ELSE IF ~Present(r.sess.uuid) THEN Ended(r, AgentNotFound)
                     ELSE [r EXCEPT !.pc = "closing", !.ai = ais[r.sess.uuid]]]
    /\ UNCHANGED <<ais, ctxs, baseHistory, cookie, nreq, nuuid>>
    /\ UNCHANGED nonSessVars

\* A reset that closes the client and clears the request session, and leaves
\* the entry in the agent map.
ResetFinish_NoDelete(s) ==
    /\ req[s].pc = "closing"
    /\ LET r == req[s]
       IN /\ ctxs' = [ctxs EXCEPT ![r.ai].state = "closed"]
          /\ req' = [req EXCEPT ![s] = Ended([r EXCEPT !.sess = EmptySession], Ok)]
    /\ UNCHANGED <<ais, baseHistory, cookie, nreq, nuuid>>
    /\ UNCHANGED nonSessVars

\* client.close() has returned: del ais[uuid], then request.session.clear().
ResetFinish(s) ==
    /\ req[s].pc = "closing"
    /\ LET r == req[s]
       IN /\ ctxs' = [ctxs EXCEPT ![r.ai].state = "closed"]
          /\ IF Present(r.sess.uuid)
             THEN /\ ais' = [ais EXCEPT ![r.sess.uuid] = NoCtx]
                  /\ req' = [req EXCEPT ![s] = Ended([r EXCEPT !.sess = EmptySession], Ok)]
             ELSE /\ req' = [req EXCEPT ![s] = Ended(r, UnhandledKeyError)]
                  /\ UNCHANGED ais
    /\ UNCHANGED <<baseHistory, cookie, nreq, nuuid>>
    /\ UNCHANGED nonSessVars

\* A session store that keeps the session's objects from request to request.
Serialize_KeepsList(sess) == sess

\* SessionMiddleware writes the session dict back as the cookie.
Serialize(sess) == [sess EXCEPT !.hist = Hist(sess), !.alias = FALSE]

\* The response leaves and the client stores its cookie.
Respond(s) ==
    /\ req[s].pc = "done"
    /\ cookie' = IF req[s].outcome \in Unhandled THEN cookie ELSE Serialize(req[s].sess)
    /\ req' = [req EXCEPT ![s] = FreeSlot]
    /\ UNCHANGED <<ais, ctxs, baseHistory, nreq, nuuid>>
    /\ UNCHANGED nonSessVars

\* The client forgets its cookie (a new browser profile).
ClientDropsCookie ==
    /\ life = "running"
    /\ cookie.uuid # NoUuid
    /\ nreq < MaxReq
    /\ cookie' = EmptySession
    /\ UNCHANGED <<ais, ctxs, baseHistory, req, nreq, nuuid>>
    /\ UNCHANGED nonSessVars

(***************************************************************************)
(* The lifespan of the chat front end: its shutdown step runs once the     *)
(* server has answered the requests in progress.                           *)
(***************************************************************************)
\* The contexts the agent map holds: ais.values().
Held == {ais[id] : id \in {u \in Uuids : ais[u] # NoCtx}}

\* lifespan after its yield: a close task is created for every agent of the
\* map, asyncio.gather is called on the tasks and its result is not awaited,
\* so the step ends with the closes scheduled.
LifespanShutdown ==
    /\ life = "running"
    /\ \A s \in Slots : req[s].pc = "free"
    /\ ctxs' = [c \in DOMAIN ctxs |->
                  IF c \in Held /\ ctxs[c].state = "live"
                  THEN [ctxs[c] EXCEPT !.state = "closing"]
                  ELSE ctxs[c]]
    /\ life' = "shutdown"
    /\ UNCHANGED <<ais, baseHistory, cookie, req, nreq, nuuid>>
    /\ UNCHANGED <<storeVars, routeVars, traceVars>>

\* A scheduled close task gets to run to its end while the loop still runs.
CloseTaskRuns(c) ==
    /\ life = "shutdown"
    /\ c \in DOMAIN ctxs
    /\ ctxs[c].state = "closing"
    /\ ctxs' = [ctxs EXCEPT ![c].state = "closed"]
    /\ UNCHANGED <<ais, baseHistory, cookie, req, nreq, nuuid, life>>
    /\ UNCHANGED <<storeVars, routeVars, traceVars>>

\* The event loop ends: the tasks still pending are cancelled.
LoopStops ==
    /\ life = "shutdown"
    /\ ctxs' = [c \in DOMAIN ctxs |->
                  IF ctxs[c].state = "closing"
                  THEN [ctxs[c] EXCEPT !.state = "cancelled"]
                  ELSE ctxs[c]]
    /\ life' = "stopped"
    /\ UNCHANGED <<ais, baseHistory, cookie, req, nreq, nuuid>>
    /\ UNCHANGED <<storeVars, routeVars, traceVars>>

InitLife == life = "running"

InitSession ==
    /\ ais = [id \in Uuids |-> NoCtx]
    /\ ctxs = <<>>
    /\ baseHistory = BASE_HISTORY
    /\ cookie = EmptySession
    /\ req = [s \in Slots |-> FreeSlot]
    /\ nreq = 0
    /\ nuuid = 0

Kinds == {"index", "login", "chat", "reset"}

NextSession ==
    \/ \E s \in Slots, kind \in Kinds, prompt \in Prompts, cred \in Credentials :
          StartRequest(s, kind, prompt, cred)
    \/ \E s \in Slots : Handle(s)
    \/ \E s \in Slots : CreateDone(s)
    \/ \E s \in Slots : ChatInvokeReturn(s)
    \/ \E s \in Slots : ChatInvokeRaise(s)
    \/ \E s \in Slots : ResetBegin(s)
    \/ \E s \in Slots : ResetFinish(s)
    \/ \E s \in Slots : Respond(s)
    \/ ClientDropsCookie
    \/ LifespanShutdown
    \/ \E c \in 1..MaxReq : CloseTaskRuns(c)
    \/ LoopStops

(***************************************************************************)
(* The retrieval service's routes (retrieval_service/app/routes.py).  One  *)
(* request is handled at a time; rlog lists the calls the handlers make to *)
(* the embedding service, the token verifier and the datastore.            *)
(***************************************************************************)
MaxRouteReq == 2

\* A request header: absent, or present with a text (a sequence of
\* characters).
NoHeader == [present |-> FALSE, text |-> <<>>]

Header(text) == [present |-> TRUE, text |-> text]

Bearer == <<"B", "e", "a", "r", "e", "r">>

LowerBearer == <<"b", "e", "a", "r", "e", "r">>

Sp == <<" ">>

\* The token the verifier accepts, and one it rejects.
GoodToken == <<"t">>

BadToken == <<"x">>

HeaderPool ==
    { NoHeader,
      Header(<<>>),
      Header(Bearer \o Sp \o GoodToken),
      Header(Bearer \o Sp \o BadToken),
      Header(Bearer),
      Header(Bearer \o Sp),
      Header(GoodToken),
      Header(LowerBearer \o Sp \o GoodToken),
      Header(Bearer \o Sp \o Sp \o GoodToken),
      Header(Bearer \o Sp \o GoodToken \o Sp \o GoodToken) }

\* str.split(" "): the pieces between single spaces, empty pieces kept.
RECURSIVE Split(_)
Split(text) ==
    IF text = <<>> THEN << <<>> >>
    ELSE LET rest == Split(Tail(text))
         IN IF Head(text) = " "
            THEN << <<>> >> \o rest
            ELSE << <<Head(text)>> \o Head(rest) >> \o Tail(rest)

\* _ParseUserIdToken: the token, or the exception it raises.
ParseUserIdToken(h) ==
    IF ~h.present \/ h.text = <<>>
    THEN [raised |-> TRUE, token |-> <<>>]
    ELSE LET parts == Split(h.text)
         IN IF Len(parts) # 2 \/ parts[1] # Bearer
            THEN [raised |-> TRUE, token |-> <<>>]
            ELSE [raised |-> FALSE, token |-> parts[2]]

\* id_token.verify_oauth2_token accepts the token or raises.
VerifyOk(token) == token = GoodToken

\* Python truth of an Optional[str] query parameter.
Truthy(x) == x # None /\ x # ""

days_of_week ==
    { "sunday", "monday", "tuesday", "wednesday", "thursday", "friday",
      "saturday" }

OpenDays == {None, "", "monday", "funday"}

OpenTimes == {None, "", "09:00"}

DayNotValid == "422 open_day value not valid"
NoneOrBoth == "422 provide none or both of open_time and open_day"
InternalError == "500 Internal Server Error"
LoginRequired == "401 User login required for data insertion"

\* A check of the pair that only asks for the day when the time is given.
PairMismatch_TimeOnly(open_time, open_day) ==
    Truthy(open_time) /\ ~Truthy(open_day)

\* routes.py line 149.
PairMismatch(open_time, open_day) ==
    \/ Truthy(open_time) /\ ~Truthy(open_day)
    \/ Truthy(open_day) /\ ~Truthy(open_time)

\* The checks of amenities_search before it calls anything: the error it
\* raises, or None.
AmenitiesSearchCheck(open_time, open_day) ==
    IF Truthy(open_day) /\ open_day \notin days_of_week THEN DayNotValid
    ELSE IF PairMismatch(open_time, open_day) THEN NoneOrBoth
    ELSE None

NoRoute ==
    [route |-> None, pc |-> "idle", open_day |-> None, open_time |-> None,
     header |-> NoHeader, outcome |-> None]

Called(n, name) == [req |-> n, call |-> name]

\* The calls the request in progress (or last answered) has made.
CallsOfRequest == {rlog[i].call : i \in {j \in DOMAIN rlog : rlog[j].req = nrt}}

\* GET /amenities/search up to the await of the datastore.
AmenitiesSearchRoute(open_time, open_day) ==
    /\ rt.pc \in {"idle", "done"}
    /\ nrt < MaxRouteReq
    /\ nrt' = nrt + 1
    /\ LET err == AmenitiesSearchCheck(open_time, open_day)
           r == [NoRoute EXCEPT !.route = "amenities_search",
                                !.open_day = open_day, !.open_time = open_time]
       IN IF err # None
          THEN /\ rt' = [r EXCEPT !.pc = "done", !.outcome = err]
               /\ UNCHANGED rlog
          ELSE /\ rt' = [r EXCEPT !.pc = "awaiting"]
               /\ rlog' = rlog \o << Called(nrt + 1, "embed_query"),
                                     Called(nrt + 1, "ds.amenities_search") >>
    /\ UNCHANGED <<storeVars, sessVars, life, traceVars>>

\* POST /tickets/insert and GET /tickets/list up to the await of the
\* datastore.  _ParseUserIdToken is called outside get_user_info's try, so
\* its exception reaches no handler; a failed verification is caught and
\* get_user_info returns None.
TicketRoute(route, h) ==
    /\ rt.pc \in {"idle", "done"}
    /\ nrt < MaxRouteReq
    /\ nrt' = nrt + 1
    /\ LET parsed == ParseUserIdToken(h)
           r == [NoRoute EXCEPT !.route = route, !.header = h]
       IN IF parsed.raised
          THEN /\ rt' = [r EXCEPT !.pc = "done", !.outcome = InternalError]
               /\ UNCHANGED rlog
          ELSE IF ~VerifyOk(parsed.token)
          THEN /\ rt' = [r EXCEPT !.pc = "done", !.outcome = LoginRequired]
               /\ rlog' = Append(rlog, Called(nrt + 1, "verify_oauth2_token"))
          ELSE /\ rt' = [r EXCEPT !.pc = "awaiting"]
               /\ rlog' = rlog \o << Called(nrt + 1, "verify_oauth2_token"),
                                     Called(nrt + 1, "ds." \o route) >>
    /\ UNCHANGED <<storeVars, sessVars, life, traceVars>>

\* The datastore call returns and the handler builds its result.
DatastoreReturns ==
    /\ rt.pc = "awaiting"
    /\ rt' = [rt EXCEPT !.pc = "done", !.outcome = Ok]
    /\ UNCHANGED <<rlog, nrt>>
    /\ UNCHANGED <<storeVars, sessVars, life, traceVars>>

\* The datastore call raises; no handler catches it.
DatastoreRaises ==
    /\ rt.pc = "awaiting"
    /\ rt' = [rt EXCEPT !.pc = "done", !.outcome = InternalError]
    /\ UNCHANGED <<rlog, nrt>>
    /\ UNCHANGED <<storeVars, sessVars, life, traceVars>>

InitRoutes ==
    /\ rt = NoRoute
    /\ rlog = <<>>
    /\ nrt = 0

TicketRoutes == {"insert_ticket", "list_tickets"}

NextRoutes ==
    \/ \E ot \in OpenTimes, od \in OpenDays : AmenitiesSearchRoute(ot, od)
    \/ \E route \in TicketRoutes, h \in HeaderPool : TicketRoute(route, h)
    \/ DatastoreReturns
    \/ DatastoreRaises

(***************************************************************************)
(* ToolTrace (llm_demo/orchestrator/helpers/tool_trace.py).  A message is  *)
(* absent (None) or a text; __init__ gives every instance its own list.    *)
(***************************************************************************)
MaxTraces == 2

MaxLog == 2

Instances == 1..MaxTraces

NoMsg == [some |-> FALSE, text |-> <<>>]

Msg(text) == [some |-> TRUE, text |-> text]

MsgPool == {NoMsg, Msg(<<>>), Msg(<<"a">>), Msg(<<"b">>)}

\* " ".join(lines)
RECURSIVE Join(_)
Join(lines) ==
    IF lines = <<>> THEN <<>>
    ELSE IF Len(lines) = 1 THEN lines[1]
    ELSE lines[1] \o Sp \o Join(Tail(lines))

NoOp == [op |-> None, inst |-> 0, arg |-> NoMsg, before |-> <<>>, result |-> <<>>]

\* add_message: `if message is not None: self.curr_log.append(message)`.
AddedTo(log, m) == IF m.some THEN Append(log, m.text) ELSE log

\* __init__: a new ToolTrace object takes the place of instance i (each
\* request makes its own); `self.curr_log = []` gives it a list of its own in
\* place of the class attribute's.
ToolTraceInit(i) ==
    /\ curr_log' = [curr_log EXCEPT ![i] = <<>>]
    /\ lastOp' = [op |-> "__init__", inst |-> i, arg |-> NoMsg,
                  before |-> curr_log[i], result |-> <<>>]
    /\ UNCHANGED <<storeVars, sessVars, life, routeVars>>

\* add_message on objects that all append to the class attribute's one list.
add_message_Shared(i, m) ==
    /\ Len(curr_log[i]) < MaxLog
    /\ curr_log' = [j \in Instances |-> AddedTo(curr_log[i], m)]
    /\ lastOp' = [op |-> "add_message", inst |-> i, arg |-> m,
                  before |-> curr_log[i], result |-> <<>>]
    /\ UNCHANGED <<storeVars, sessVars, life, routeVars>>

add_message(i, m) ==
    /\ Len(curr_log[i]) < MaxLog
    /\ curr_log' = [curr_log EXCEPT ![i] = AddedTo(@, m)]
    /\ lastOp' = [op |-> "add_message", inst |-> i, arg |-> m,
                  before |-> curr_log[i], result |-> <<>>]
    /\ UNCHANGED <<storeVars, sessVars, life, routeVars>>

flush(i) ==
    /\ curr_log' = [curr_log EXCEPT ![i] = <<>>]
    /\ lastOp' = [op |-> "flush", inst |-> i, arg |-> NoMsg,
                  before |-> curr_log[i], result |-> Join(curr_log[i])]
    /\ UNCHANGED <<storeVars, sessVars, life, routeVars>>

InitTrace ==
    /\ curr_log = [i \in Instances |-> <<>>]
    /\ lastOp = NoOp

NextTrace ==
    \/ \E i \in Instances, m \in MsgPool : add_message(i, m)
    \/ \E i \in Instances : flush(i)
    \/ \E i \in Instances : ToolTraceInit(i)

(***************************************************************************)
(* Specifications.  Each fixes the other part of the state.                *)
(***************************************************************************)
vars == <<storeVars, sessVars, life, routeVars, traceVars>>

\* The datastore client alone.
Init ==
    /\ InitStore
    /\ InitSession
    /\ InitLife
    /\ InitRoutes
    /\ InitTrace

SpecStore == Init /\ [][NextStore]_vars

IdleStore ==
    /\ provider = "neo4j_graph"
    /\ amenities = <<>>
    /\ manifest = <<>>
    /\ g = EmptyGraph
    /\ tx = EmptyGraph
    /\ pc = "idle"
    /\ phase = 0
    /\ idx = 1
    /\ runs = 0
    /\ counts = <<>>
    /\ lastCall = NoCall
    /\ search = NoSearch
    /\ exported = NoExport

\* The bulk loader with runs that are cancelled or fail.
NextLoader ==
    \/ StartInitializeData
    \/ DeleteGraph
    \/ DeleteVectorIndex
    \/ CreateAmenityNode
    \/ MergeCategory
    \/ MergeBelongsTo
    \/ MergeManifestRow
    \/ CreateVectorIndex
    \/ CreateAmenities
    \/ Commit
    \/ CancelOrFail

SpecLoader == Init /\ [][NextLoader]_vars

\* The chat front end alone.
InitIdle ==
    /\ IdleStore
    /\ InitSession
    /\ InitLife
    /\ InitRoutes
    /\ InitTrace

SpecSession == InitIdle /\ [][NextSession]_vars

\* The retrieval service's routes alone.
SpecRoutes == InitIdle /\ [][NextRoutes]_vars

\* ToolTrace objects alone.
SpecTrace == InitIdle /\ [][NextTrace]_vars

(***************************************************************************)
(* Properties of the datastore providers (checked under SpecStore).        *)
(***************************************************************************)
AirportOps == {"get_airport_by_id", "get_airport_by_iata", "search_airports"}
FlightOps == {"get_flight", "search_flights_by_number", "search_flights_by_airports"}
TicketOps == {"validate_ticket", "insert_ticket", "list_tickets"}
PolicyOps == {"policies_search"}

\* The capabilities each provider is stated not to support.
StatedUnsupported(p) ==
    AirportOps \cup FlightOps \cup TicketOps \cup PolicyOps
        \cup (IF p = "neo4jdb" THEN {"get_amenity", "amenities_search"}
              ELSE {"export_data"})

\* C1: a call of a capability the provider does not support ends in the
\* unsupported-capability error (NotImplementedError), returns no value, and
\* opens no driver session.
C1_UnsupportedRaises ==
    lastCall.cap \in StatedUnsupported(provider) =>
        /\ lastCall.outcome = "NotImplementedError"
        /\ ~lastCall.touched
        /\ ~search.called

\* C1's case: export_data was invoked on the graph provider over a loaded
\* graph, and list_tickets on neo4jdb.
C1_Witness ==
    /\ runs >= 1
    /\ NodeCount(g) > 0
    /\ \/ provider = "neo4j_graph" /\ lastCall.cap = "export_data"
       \/ provider = "neo4jdb" /\ lastCall.cap = "amenities_search"
    /\ lastCall.outcome = "NotImplementedError"

\* C5: the second of two successive runs of initialize_data on the same input
\* leaves the node and edge counts the first run left.
C5_SecondRunSameCounts ==
    \A n \in 1..Len(counts) : n > 1 => counts[n] = counts[n - 1]

AmenityNodes(gr) == SelectSeq(gr.nodes, LAMBDA n : n.label = "Amenity")

\* The Amenity nodes of the graph are the first n input amenities, in order.
IsInputPrefix(gr) ==
    LET an == AmenityNodes(gr)
    IN /\ Len(an) <= Len(amenities)
       /\ \A i \in 1..Len(an) :
             /\ an[i].id = amenities[i].id
             /\ an[i].name = amenities[i].name

AllInputNodesExist(gr) ==
    IsInputPrefix(gr) /\ Len(AmenityNodes(gr)) = Len(amenities)

EndsExist(gr) ==
    \A e \in BagToSet(gr.edges) : e.src \in DOMAIN gr.nodes /\ e.tgt \in DOMAIN gr.nodes

\* Every Amenity node has its BELONGS_TO edge to the node of its category.
DerivedEdgesComplete(gr) ==
    \A i \in AmenityIdx(gr) :
        \E j \in CategoryIdx(gr) :
            /\ gr.nodes[j].name = gr.nodes[i].category
            /\ CopiesIn(Edge(i, "BELONGS_TO", j), gr.edges) >= 1

\* Two names equal up to letter case, read off the letters themselves.
CasePairs ==
    { {"C", "c"}, {"A", "a"}, {"F", "f"}, {"E", "e"}, {"L", "l"}, {"O", "o"},
      {"U", "u"}, {"N", "n"}, {"G", "g"}, {"T", "t"} }

SameIgnoringCase(x, y) ==
    /\ Len(x) = Len(y)
    /\ \A i \in 1..Len(x) : x[i] = y[i] \/ {x[i], y[i]} \in CasePairs

\* The ordered pairs of Amenity nodes a manifest row names.
RowPairs(gr, row) ==
    {p \in AmenityIdx(gr) \X AmenityIdx(gr) :
        /\ SameIgnoringCase(gr.nodes[p[1]].name, row.src_id)
        /\ SameIgnoringCase(gr.nodes[p[2]].name, row.tgt_id)}

ManifestEdgesComplete(gr) ==
    \A j \in DOMAIN manifest :
        \A p \in RowPairs(gr, manifest[j]) :
            CopiesIn(Edge(p[1], manifest[j].rel_type, p[2]), gr.edges) = 1

NodesAdded == Len(tx'.nodes) > Len(tx.nodes)

NodesRemoved == Len(tx'.nodes) < Len(tx.nodes)

EdgesAdded == BagCardinality(tx'.edges) > BagCardinality(tx.edges)

ManifestEdgesAdded ==
    \E e \in BagToSet(tx'.edges) :
        e.type # "BELONGS_TO" /\ CopiesIn(e, tx'.edges) > CopiesIn(e, tx.edges)

\* C6: in a run of the graph provider's initialize_data the statements take
\* effect in the order wipe, node creation, derived edges, manifest edges,
\* index build, each phase complete before the next acts: nodes are created
\* only into a wiped graph that has no edge and no index, an edge is created
\* only between existing nodes and once every input amenity has its node, a
\* manifest edge only once every derived edge exists, and the vector index
\* only once all nodes and all edges exist.
C6_PhaseOrder ==
    [][provider = "neo4j_graph" =>
        /\ NodesRemoved => tx'.nodes = <<>> /\ tx'.edges = EmptyBag
        /\ (tx.index /\ ~tx'.index) => tx.nodes = <<>>
        /\ NodesAdded =>
              /\ tx.edges = EmptyBag
              /\ ~tx.index
              /\ IsInputPrefix(tx')
        /\ EdgesAdded =>
              /\ AllInputNodesExist(tx)
              /\ EndsExist(tx')
              /\ ~tx.index
        /\ ManifestEdgesAdded => DerivedEdgesComplete(tx)
        /\ (~tx.index /\ tx'.index) =>
              /\ AllInputNodesExist(tx)
              /\ DerivedEdgesComplete(tx)
              /\ ManifestEdgesComplete(tx)]_vars

\* C6's case: a second run of the graph loader has gone through all its
\* phases over at least two amenities and a manifest edge.
C6_Witness ==
    /\ provider = "neo4j_graph"
    /\ pc = "idle"
    /\ runs = 2
    /\ g.index
    /\ Len(AmenityNodes(g)) >= 2
    /\ \E e \in BagToSet(g.edges) : e.type = "BELONGS_TO"
    /\ \E e \in BagToSet(g.edges) : e.type # "BELONGS_TO"

ManifestDone ==
    \/ pc = "idle" /\ runs >= 1
    \/ pc \in {"create_vector_index", "commit"} /\ phase >= 4

\* C7: a manifest row whose names match amenity nodes ignoring letter case
\* yields exactly one edge of its type from the source to the target node,
\* however the row is cased, however often it appears and however often the
\* loader has run; no edge ever has a second copy.
C7_OneEdgePerRow ==
    provider = "neo4j_graph" =>
        /\ \A e \in BagToSet(tx.edges) : CopiesIn(e, tx.edges) = 1
        /\ \A e \in BagToSet(g.edges) : CopiesIn(e, g.edges) = 1
        /\ ManifestDone => ManifestEdgesComplete(tx)
        /\ (pc = "idle" /\ runs >= 1) => ManifestEdgesComplete(g)

\* C7's case: after the second run, a row written in two casings, neither the
\* casing of the node names, has produced its one edge.
C7_Witness ==
    /\ provider = "neo4j_graph"
    /\ pc = "idle"
    /\ runs = 2
    /\ manifest = <<Row(cafe, "Similar_to", LOUNGE), Row(CAFE, "Similar_to", Lounge)>>
    /\ \E p \in RowPairs(g, manifest[1]) :
          /\ g.nodes[p[1]].name = Cafe
          /\ g.nodes[p[2]].name = Lounge
          /\ CopiesIn(Edge(p[1], "Similar_to", p[2]), g.edges) = 1

RowSources(rows) == {r.source : r \in rows}

Attached(rows, p) == {r \in rows : r.source = p /\ r.target # NoTarget}

\* The Similar_to relationships a node has, in either direction.
RelatedOf(gr, p) ==
    {e \in BagToSet(gr.edges) : e.type = "Similar_to" /\ p \in {e.src, e.tgt}}

\* C8: amenities_search with top_k = k returns at most k distinct primary
\* amenities, and the cap of 2 on related amenities applies to each primary
\* match by itself: a returned primary has its related amenities attached, up
\* to 2 of them, whatever the other primaries of the result have.
C8_CapPerPrimary ==
    search.called =>
        /\ Cardinality(RowSources(search.rows)) <= search.k
        /\ \A p \in RowSources(search.rows) :
              Cardinality(Attached(search.rows, p))
                 = Min(2, Cardinality(RelatedOf(g, p)))

\* C9: every amenity amenities_search returns has similarity to the query
\* embedding at or above similarity_threshold.
C9_ThresholdCutoff ==
    search.called =>
        \A r \in search.rows : Score(g, r.source, search.q) >= search.thr

\* C10: every primary amenity the vector index query selects appears in the
\* returned rows, with or without a related amenity.
C10_PrimaryKept ==
    search.called =>
        \A p \in search.selected : \E r \in search.rows : r.source = p

(***************************************************************************)
(* Properties of the chat front end (checked under SpecSession).           *)
(***************************************************************************)
Invoking(id) == {s \in Slots : req[s].pc = "invoking" /\ req[s].sess.uuid = id}

\* C2: at no time are two invocations of the context of one session id in
\* progress.
C2_Serialized == \A id \in Uuids : Cardinality(Invoking(id)) <= 1

\* C3: a session id has at most one allocated and unreleased context at any
\* time, and a request that finds the session present allocates none.
C3_OneLiveContext ==
    /\ \A id \in Uuids : Cardinality(LiveCtxs(id)) <= 1
    /\ \A s \in Slots : req[s].found => req[s].allocated = NoCtx

\* The errors that tell the caller the session does not exist.
SessionNotFoundErrors == {IndexFirst, OrchestrationMissing}

\* The request's session id was absent: it came without one, or get_agent
\* found no entry for it in the agent map.
Absent(r) == r.sent = NoUuid \/ (r.looked /\ ~r.found)

\* C4: a chat request whose session id is absent (never created, or reset)
\* ends in an error: the prompt is not forwarded to a context, no context is
\* created, no response text is returned; with a prompt given the error is a
\* session-not-found error, which no chat on a present session ends in.
C4_ChatOnAbsentSessionFails ==
    \A s \in Slots :
        LET r == req[s]
        IN (r.kind = "chat" /\ r.pc \notin {"free", "start"}) =>
              /\ Absent(r) =>
                    /\ r.pc = "done"
                    /\ r.outcome \in SessionNotFoundErrors \cup {NoUserQuery}
                    /\ r.prompt # "" => r.outcome \in SessionNotFoundErrors
                    /\ ~r.invoked
                    /\ r.allocated = NoCtx
                    /\ r.response = None
              /\ (r.looked /\ r.found) => r.outcome \notin SessionNotFoundErrors

\* C4's case: a chat with a prompt has ended on a session id whose context a
\* reset had released.
C4_Witness ==
    \E s \in Slots :
        /\ req[s].kind = "chat"
        /\ req[s].pc = "done"
        /\ req[s].prompt # ""
        /\ req[s].sent # NoUuid
        /\ req[s].looked /\ ~req[s].found
        /\ \E c \in DOMAIN ctxs : ctxs[c].owner = req[s].sent /\ ctxs[c].state = "closed"

(***************************************************************************)
(* Properties of the retrieval service's routes (checked under SpecRoutes).*)
(***************************************************************************)
\* A query parameter is supplied when the request gives it a value.
Supplied(x) == x # None /\ x # ""

ValidationErrors == {DayNotValid, NoneOrBoth}

\* C11: an amenities search request that supplies exactly one of open_day and
\* open_time ends in a validation error (422), and neither the embedding
\* service nor the datastore is called for it.
C11_DayAndTimeTogether ==
    (/\ rt.route = "amenities_search"
     /\ rt.pc # "idle"
     /\ Supplied(rt.open_day) # Supplied(rt.open_time)) =>
        /\ rt.pc = "done"
        /\ rt.outcome \in ValidationErrors
        /\ CallsOfRequest = {}

\* C11's case: open_day = "monday" with no open_time was answered 422, after
\* an earlier search with both parameters had gone through to the datastore.
C11_Witness ==
    /\ rt.route = "amenities_search"
    /\ rt.open_day = "monday"
    /\ rt.open_time = None
    /\ rt.pc = "done"
    /\ rt.outcome = NoneOrBoth
    /\ \E i \in DOMAIN rlog : rlog[i].call = "ds.amenities_search"

\* The one well-formed credential the verifier accepts.
CredentialOk(h) == h.present /\ h.text = Bearer \o Sp \o GoodToken

\* C18: a ticket request whose credential is missing, malformed or fails
\* verification is answered 401, and the datastore's insert_ticket or
\* list_tickets is not called for it.
C18_TicketsNeedCredential ==
    (/\ rt.route \in TicketRoutes
     /\ rt.pc # "idle"
     /\ ~CredentialOk(rt.header)) =>
        /\ rt.pc = "done"
        /\ rt.outcome = LoginRequired
        /\ CallsOfRequest \cap {"ds.insert_ticket", "ds.list_tickets"} = {}

(***************************************************************************)
(* Properties of ToolTrace (checked under SpecTrace).                      *)
(***************************************************************************)
\* The lines of a buffer one after the other, and a text without its spaces.
RECURSIVE Concat(_)
Concat(lines) == IF lines = <<>> THEN <<>> ELSE Head(lines) \o Concat(Tail(lines))

NoSpaces(text) == SelectSeq(text, LAMBDA ch : ch # " ")

\* C17: add_message appends its text unless the text is empty or absent, in
\* which case the buffer is unchanged; flush returns the buffered lines in
\* insertion order as one string and leaves the buffer empty, so that a flush
\* of an empty buffer returns the empty string.
C17_FlushOnceBuffer ==
    /\ lastOp.op = "add_message" =>
          curr_log[lastOp.inst] =
              IF ~lastOp.arg.some \/ lastOp.arg.text = <<>>
              THEN lastOp.before
              ELSE Append(lastOp.before, lastOp.arg.text)
    /\ lastOp.op = "flush" =>
          /\ curr_log[lastOp.inst] = <<>>
          /\ NoSpaces(lastOp.result) = Concat(lastOp.before)
          /\ lastOp.before = <<>> => lastOp.result = <<>>

(***************************************************************************)
(* Properties of the chat front end, continued (checked under SpecSession).*)
(***************************************************************************)
\* C16: once the lifespan's shutdown step has finished, the close of every
\* context that was live at shutdown has completed.
C16_ShutdownClosesAll ==
    life # "running" => \A c \in DOMAIN ctxs : ctxs[c].state = "closed"

IsPrefix(a, b) == Len(a) <= Len(b) /\ SubSeq(b, 1, Len(a)) = a

\* C12: as long as the client's session is not reset (it keeps its uuid), every
\* entry of its message history stays, unchanged and at its position: the
\* history before a step is a prefix of the history after it.
C12_HistoryAppendOnly ==
    [][(cookie.uuid # NoUuid /\ cookie'.uuid = cookie.uuid) =>
          IsPrefix(cookie.hist, cookie'.hist)]_vars

\* C13: when a chat call has ended because the invocation of the context
\* failed, the history its session holds (and the response writes back) does
\* not end with the call's user message: the message and the reply are there
\* as a pair or not at all.
C13_PairOrNothing ==
    \A s \in Slots :
        LET r == req[s]
            h == Hist(r.sess)
        IN (r.kind = "chat" /\ r.pc = "done" /\ r.outcome = InvokeError) =>
              (h = <<>> \/ h[Len(h)] # "human")

\* The step in which the reset request of slot s ends.
ResetEnds(s) ==
    /\ req[s].kind = "reset"
    /\ req[s].pc \in {"start", "closing"}
    /\ req'[s].pc = "done"

\* C14: a reset that succeeds leaves its session id out of the agent map, with
\* the context it found bound to the id released and every other id's entry
\* as it was; a reset of an id that is absent when the handler looks it up
\* fails with a session-not-found error; and a reset that fails changes
\* neither the agent map nor the request's session.
C14_ResetRemoves ==
    [][\A s \in Slots :
          ResetEnds(s) =>
             LET r == req[s]
                 id == r.sess.uuid
             IN /\ req'[s].outcome = Ok =>
                      /\ Present(id)
                      /\ ais'[id] = NoCtx
                      /\ ctxs'[r.ai].state = "closed"
                      /\ \A u \in Uuids \ {id} : ais'[u] = ais[u]
                /\ (r.pc = "start" /\ ~Present(id)) =>
                      req'[s].outcome \in {NoSessionToReset, AgentNotFound}
                /\ req'[s].outcome # Ok =>
                      /\ ais' = ais
                      /\ req'[s].sess = r.sess]_vars

\* C14's case: a session was created and reset, and a second reset
\* with the stale cookie of that session was answered that no agent exists.
C14_Witness ==
    /\ \E c \in DOMAIN ctxs : ctxs[c].state = "closed" /\ ais[ctxs[c].owner] = NoCtx
    /\ \E s \in Slots :
          /\ req[s].kind = "reset"
          /\ req[s].pc = "done"
          /\ req[s].outcome = AgentNotFound

\* C15: a login attaches the bearer credential to the context of the caller's
\* session when the session exists; for an absent session it fails with the
\* session-not-found error, allocates nothing, and leaves the request
\* session's uuid and history as they came.
C15_LoginHeaderOnlyIfPresent ==
    \A s \in Slots :
        LET r == req[s]
        IN (r.kind = "login" /\ r.pc = "done" /\ r.looked) =>
              IF r.found
              THEN r.outcome = Redirect /\ ctxs[r.ai].header = "Bearer"
              ELSE /\ r.outcome = OrchestrationMissing
                   /\ r.allocated = NoCtx
                   /\ r.sess.uuid = r.sent
                   /\ r.sent = NoUuid => ~r.sess.hasHist

(***************************************************************************)
(* Properties of the datastore providers, continued (checked under         *)
(* SpecStore).                                                             *)
(***************************************************************************)
\* The identity fields of the entries of a collection, with multiplicity.
RECURSIVE IdentityBag(_)
IdentityBag(col) ==
    IF col = <<>> THEN EmptyBag
    ELSE SetToBag({[name |-> Head(col).name, category |-> Head(col).category]})
            (+) IdentityBag(Tail(col))

\* C19: export_data called after initialize_data on the provider that has it
\* returns the four collections (airports, amenities, flights, policies), and
\* its amenities are the input amenities one for one, equal in their identity
\* fields.
C19_ExportRecoversInput ==
    (/\ provider = "neo4jdb"
     /\ lastCall.cap = "export_data"
     /\ runs >= 1) =>
        /\ ~exported.raised
        /\ Len(exported.collections) = 4
        /\ IdentityBag(exported.collections[2]) = IdentityBag(amenities)

\* C20: no amenity is stored with an embedding that is not of the index's
\* dimension, and a search whose query embedding is not of that dimension
\* ends in a validation error without the query being run.
C20_FixedDimension ==
    provider = "neo4j_graph" =>
        /\ \A i \in AmenityIdx(tx) : tx.nodes[i].embedding.dim = VectorDimensions
        /\ \A i \in AmenityIdx(g) : g.nodes[i].embedding.dim = VectorDimensions
        /\ (lastCall.cap = "amenities_search" /\ search.q.dim # VectorDimensions
              /\ search.q # NoEmbedding) =>
              /\ lastCall.outcome = "ValidationError"
              /\ ~lastCall.touched

(***************************************************************************)
(* Properties of the bulk loader under cancellation (checked under         *)
(* SpecLoader).                                                            *)
(***************************************************************************)
\* The categories of the input amenities.
InputCategories == {amenities[i].category : i \in DOMAIN amenities}

\* Either no node of the node phase exists, or all of them do.
NodesAtBoundary(gr) ==
    \/ gr.nodes = <<>>
    \/ /\ AllInputNodesExist(gr)
       /\ {gr.nodes[j].name : j \in CategoryIdx(gr)} = InputCategories

ManifestEdges(gr) == {e \in BagToSet(gr.edges) : e.type # "BELONGS_TO"}

\* Either no edge exists, or all derived edges do and the manifest edges are
\* all there or all missing.
EdgesAtBoundary(gr) ==
    \/ gr.edges = EmptyBag
    \/ /\ DerivedEdgesComplete(gr)
       /\ ManifestEdges(gr) = {} \/ ManifestEdgesComplete(gr)

SessionCreated(s) ==
    /\ req[s].pc = "creating"
    /\ req'[s].pc # "creating"

C23_InstancesIsolated ==
    [][/\ \A i \in Instances :
             i # lastOp'.inst => curr_log'[i] = curr_log[i]
       /\ lastOp'.op = "flush" =>
             NoSpaces(lastOp'.result) = Concat(curr_log[lastOp'.inst])]_vars

\* C23's case: lines were added to both instances in turn, and a flush of the
\* first returned its line alone and left the second's buffer in place.
C23_Witness ==
    /\ lastOp.op = "flush"
    /\ lastOp.inst = 1
    /\ lastOp.result = <<"a">>
    /\ curr_log[1] = <<>>
    /\ curr_log[2] = <<"b">>

====
